---- MODULE Spec2Model ----
(***************************************************************************)
(* Model of aicommit.py: AICommitMessageGenerator and its run() pipeline.  *)
(* One process; every external call (git subprocess, HTTP request) is one  *)
(* atomic step.  Text is a sequence of one-character strings.  Python      *)
(* values are tagged records [t |-> tag, v |-> payload].                   *)
(***************************************************************************)
EXTENDS Integers, Sequences, FiniteSets, TLC

\* ------------------------------------------------------------------ bounds
NumFiles == 2

Files == 1..NumFiles

FileChar(f) == IF f = 1 THEN "a" ELSE IF f = 2 THEN "b" ELSE IF f = 3 THEN "c" ELSE "z"

\* ----------------------------------------------------------- Python values
Str(s) == [t |-> "str", v |-> s]

None == [t |-> "null", v |-> <<>>]

Num(n) == [t |-> "num", v |-> n]

Arr(s) == [t |-> "arr", v |-> s]

Obj(r) == [t |-> "obj", v |-> r]

Raise(e) == [t |-> "err", v |-> e]

\* bool(x) for the values os.getenv can return (None or a str)
Truthy(x) == x.t = "str" /\ x.v # <<>>

\* os.getenv(name): the value when set, None otherwise
GetEnv(env, name) == IF name \in DOMAIN env THEN Str(env[name]) ELSE None

\* x.get(k, "") in place of x[k]
GetKeyDefault(x, k) ==
    IF x.t = "err" THEN x
    ELSE IF x.t = "obj" THEN (IF k \in DOMAIN x.v THEN x.v[k] ELSE Str(<<>>))
    ELSE Raise("TypeError")

\* x[k] for a string key k
GetKey(x, k) ==
    IF x.t = "err" THEN x
    ELSE IF x.t = "obj" THEN (IF k \in DOMAIN x.v THEN x.v[k] ELSE Raise("KeyError"))
    ELSE Raise("TypeError")

\* x[i] for an integer index i >= 0
GetIdx(x, i) ==
    IF x.t = "err" THEN x
    ELSE IF x.t = "obj" THEN Raise("KeyError")
    ELSE IF x.t = "arr" THEN (IF i < Len(x.v) THEN x.v[i + 1] ELSE Raise("IndexError"))
    ELSE IF x.t = "str" THEN (IF i < Len(x.v) THEN Str(<<x.v[i + 1]>>) ELSE Raise("IndexError"))
    ELSE Raise("TypeError")

\* response_json["candidates"][0]["content"]["parts"][0]["text"]
Extract(r) ==
    GetKey(GetIdx(GetKey(GetKey(GetIdx(GetKey(r, "candidates"), 0), "content"), "parts"), 0), "text")

\* ------------------------------------------------------------------- text
Whitespace == {" ", "\n", "\t"}

RECURSIVE LStrip(_)
LStrip(s) == IF s # <<>> /\ Head(s) \in Whitespace THEN LStrip(Tail(s)) ELSE s

RECURSIVE RStrip(_)
RStrip(s) ==
    IF s # <<>> /\ s[Len(s)] \in Whitespace THEN RStrip(SubSeq(s, 1, Len(s) - 1)) ELSE s

\* str.strip()
Strip(s) == RStrip(LStrip(s))

\* build_prompt: the fixed instructions (abridged), the diff verbatim, a tail
PromptHead == <<"G", "u", "i", "d", "e", "l", "i", "n", "e", "s", ":", "\n">>

PromptTail == <<"\n", " ">>

BuildPrompt(git_diff) == PromptHead \o git_diff \o PromptTail

\* -------------------------------------------------------------------- git
\* `git diff --cached` prints one hunk per staged file, in path order
RECURSIVE Render(_, _)
Render(S, f) ==
    IF f > NumFiles THEN <<>>
    ELSE (IF f \in S THEN <<"+", FileChar(f), "\n">> ELSE <<>>) \o Render(S, f + 1)

\* What the diff subprocess can write to stdout.  For an index equal to HEAD
\* git prints nothing; blank output is admitted as well, so that both the
\* empty and the whitespace-only arm of diff.strip() occur.
DiffStdout(S) == IF S = {} THEN {<<>>, <<"\n">>, <<" ", "\n">>} ELSE {Render(S, 1)}

\* the set the diff subprocess is asked to print: --cached shows the index
DiffTargetUnstaged(stagedSet, dirtySet) == dirtySet

DiffTarget(stagedSet, dirtySet) == stagedSet

\* (returncode, stderr) pairs of `git status`
StatusResults ==
    << [rc |-> 0, stderr |-> <<>>],
       [rc |-> 0, stderr |-> <<"w", "a", "r", "n">>],
       [rc |-> 128, stderr |-> <<"f", "a", "t", "a", "l">>],
       [rc |-> 1, stderr |-> <<>>] >>

\* ------------------------------------------------------ the remote endpoint
Part(txt) == Obj([text |-> txt])

Cand(parts) == Obj([content |-> Obj([parts |-> Arr(parts)])])

MsgA == <<"F", "i", "x", "\n", "\n", "-", " ", "X", "\n">>

MsgB == <<"O", "t", "h", "e", "r">>

\* parsed bodies of 2xx answers
Bodies ==
    << Obj([candidates |-> Arr(<<Cand(<<Part(Str(MsgA))>>)>>)]),
       Obj([candidates |-> Arr(<<Cand(<<Part(Str(MsgA)), Part(Str(MsgB))>>),
                                 Cand(<<Part(Str(MsgB))>>)>>)]),
       Obj([candidates |-> Arr(<<Cand(<<Part(Str(<<>>))>>)>>)]),
       Obj([candidates |-> Arr(<<Cand(<<Part(None)>>)>>)]),
       Obj([error |-> Obj([code |-> Num(400)])]),
       Obj([candidates |-> Arr(<<>>)]),
       Obj([candidates |-> Arr(<<Obj([finishReason |-> Str(<<"S">>)])>>)]),
       Obj([candidates |-> Arr(<<Cand(<<>>)>>)]),
       Obj([candidates |-> Arr(<<Cand(<<Obj([inlineData |-> Str(<<"x">>)])>>)>>)]),
       Obj([candidates |-> Arr(<<Obj([content |-> Obj([parts |-> Str(MsgB)])])>>)]),
       Obj([candidates |-> Str(MsgB)]),
       Arr(<<>>),
       None >>

\* what urlopen + read + json.loads yield: an exception or the parsed body
HttpOutcomes ==
    << Raise("URLError"), Raise("HTTPError"), Raise("JSONDecodeError") >> \o Bodies

\* -------------------------------------------------- decisions of the code
\* __init__: `if not self.API_KEY`
KeyIsNone(key) == key.t = "null"

KeyMissing(key) == ~Truthy(key)

\* check_git_status: `if error := git_status.stderr`
StatusRaisesOnRc(rc, stderr) == rc # 0

StatusRaises(rc, stderr) == stderr # <<>>

\* run: except OSError -> log and return; otherwise go on to get_git_diff
RunIgnoresStatus(raised) == "add"

RunAfterStatus(raised) == IF raised THEN "done" ELSE "add"

\* run: `if not diff.strip()`
DiffIsEmptyNoStrip(d) == d = <<>>

DiffIsEmpty(d) == Strip(d) = <<>>

\* run: call_gemini_api is not wrapped: an exception leaves run()
RunAfterApiSwallow(result) == IF result.t = "err" THEN "done" ELSE "commit"

RunAfterApiRetry(result) == IF result.t = "err" THEN "api" ELSE "commit"

RunAfterApi(result) == IF result.t = "err" THEN "error" ELSE "commit"

\* commit_changes: restore follows commit whatever commit did
RestoreOnlyOnSuccess(outcome) == IF outcome \in {"accepted", "edited"} THEN "restore" ELSE "done"

AfterCommit(outcome) == "restore"

\* ------------------------------------------------------------------ state
VARIABLES
    pc,             \* next step of the process
    environ,        \* process environment
    gitInstalled,   \* whether a git executable can be spawned
    staged,         \* files whose index entry differs from HEAD
    dirty,          \* files whose working-tree copy differs from the index
    hasHead,        \* whether the branch has a commit
    commits,        \* commits created, each [msg, files]
    API_KEY,        \* self.API_KEY
    calls,          \* external operations performed, in order
    log,            \* levels of the records logged
    statusResult,   \* completed `git status`
    diff,           \* run's local `diff`
    request,        \* the HTTP request sent
    response,       \* what the endpoint answered
    commit_message, \* run's local `commit_message`
    commitArg,      \* the --message argument given to git commit
    commitOutcome,  \* what became of the commit
    err,            \* exception leaving the process, and where it arose
    staged0,        \* history: index before the run
    dirty0,         \* history: working tree before the run
    stagedAtDiff    \* history: index when the diff was captured

vars ==
    << pc, environ, gitInstalled, staged, dirty, hasHead, commits, API_KEY, calls, log,
       statusResult, diff, request, response, commit_message, commitArg, commitOutcome,
       err, staged0, dirty0, stagedAtDiff >>

NoErr == [type |-> "none", at |-> "none"]

NoStatus == [rc |-> 0 - 1, stderr |-> <<>>]

KeyName == "GEMINI_API_KEY"

KeyValues == {<<>>, <<"k">>}

Environs == {<<>>} \cup {[n \in {KeyName} |-> k] : k \in KeyValues}

Init ==
    /\ pc = "start"
    /\ environ \in Environs
    /\ gitInstalled \in BOOLEAN
    /\ staged \in SUBSET Files
    /\ dirty \in SUBSET Files
    /\ hasHead \in BOOLEAN
    /\ commits = <<>>
    /\ API_KEY = None
    /\ calls = <<>>
    /\ log = <<>>
    /\ statusResult = NoStatus
    /\ diff = <<>>
    /\ request = None
    /\ response = None
    /\ commit_message = None
    /\ commitArg = None
    /\ commitOutcome = "none"
    /\ err = NoErr
    /\ staged0 = staged
    /\ dirty0 = dirty
    /\ stagedAtDiff = {}

\* ---------------------------------------------------------------- actions
\* __main__: AICommitMessageGenerator() -- __init__
Construct ==
    /\ pc = "start"
    /\ API_KEY' = GetEnv(environ, KeyName)
    /\ IF KeyMissing(API_KEY')
         THEN pc' = "error" /\ err' = [type |-> "OSError", at |-> "init"]
         ELSE pc' = "status" /\ err' = err
    /\ UNCHANGED << environ, gitInstalled, staged, dirty, hasHead, commits, calls, log,
                    statusResult, diff, request, response, commit_message, commitArg,
                    commitOutcome, staged0, dirty0, stagedAtDiff >>

\* run: logger.info, then check_git_status inside try/except OSError
CheckGitStatus ==
    /\ pc = "status"
    /\ \/ /\ ~gitInstalled
          \* subprocess.run raises FileNotFoundError, an OSError: caught by run
          /\ log' = log \o <<"INFO", "ERROR">>
          /\ pc' = RunAfterStatus(TRUE)
          /\ UNCHANGED << calls, statusResult >>
       \/ /\ gitInstalled
          /\ \E i \in 1..Len(StatusResults) :
               LET r == StatusResults[i]
                   raised == StatusRaises(r.rc, r.stderr)
               IN  /\ statusResult' = r
                   /\ calls' = Append(calls, "status")
                   /\ log' = log \o (IF raised THEN <<"INFO", "ERROR">> ELSE <<"INFO">>)
                   /\ pc' = RunAfterStatus(raised)
    /\ UNCHANGED << environ, gitInstalled, staged, dirty, hasHead, commits, API_KEY, diff,
                    request, response, commit_message, commitArg, commitOutcome, err,
                    staged0, dirty0, stagedAtDiff >>

\* get_git_diff, first call: git add .  (result ignored)
GitAdd ==
    /\ pc = "add"
    /\ calls' = Append(calls, "add")
    /\ \/ staged' = staged \cup dirty /\ dirty' = {}
       \/ UNCHANGED << staged, dirty >>
    /\ pc' = "diff"
    /\ UNCHANGED << environ, gitInstalled, hasHead, commits, API_KEY, log, statusResult,
                    diff, request, response, commit_message, commitArg, commitOutcome, err,
                    staged0, dirty0, stagedAtDiff >>

\* get_git_diff, second call: git diff --cached; then run's empty-diff test
GitDiff ==
    /\ pc = "diff"
    /\ calls' = Append(calls, "diff")
    /\ stagedAtDiff' = staged
    /\ \E out \in DiffStdout(DiffTarget(staged, dirty)) :
         /\ diff' = out
         /\ IF DiffIsEmpty(out)
              THEN log' = Append(log, "WARNING") /\ pc' = "done"
              ELSE log' = log /\ pc' = "api"
    /\ UNCHANGED << environ, gitInstalled, staged, dirty, hasHead, commits, API_KEY,
                    statusResult, request, response, commit_message, commitArg,
                    commitOutcome, err, staged0, dirty0 >>

\* build_prompt and call_gemini_api
CallGeminiApi ==
    /\ pc = "api"
    /\ calls' = Append(calls, "network")
    /\ request' = [key |-> API_KEY, text |-> BuildPrompt(diff)]
    /\ \E i \in 1..Len(HttpOutcomes) :
         LET outcome == HttpOutcomes[i]
             result == IF outcome.t = "err" THEN outcome ELSE Extract(outcome)
         IN  /\ response' = outcome
             /\ pc' = RunAfterApi(result)
             /\ IF result.t = "err"
                  THEN err' = [type |-> result.v, at |-> "api"] /\ commit_message' = commit_message
                  ELSE err' = err /\ commit_message' = result
    /\ UNCHANGED << environ, gitInstalled, staged, dirty, hasHead, commits, API_KEY, log,
                    statusResult, diff, commitArg, commitOutcome, staged0, dirty0,
                    stagedAtDiff >>

EditedMsg == <<"E", "d", "i", "t">>

\* commit_changes, first call: git commit --edit --message <message>
GitCommit ==
    /\ pc = "commit"
    /\ \/ /\ commit_message.t # "str"
          \* subprocess.run rejects a non-string argument
          /\ pc' = "error"
          /\ err' = [type |-> "TypeError", at |-> "commit"]
          /\ UNCHANGED << calls, commitArg, commitOutcome, commits, staged, hasHead >>
       \/ /\ commit_message.t = "str"
          /\ calls' = Append(calls, "commit")
          /\ commitArg' = commit_message
          /\ err' = err
          /\ \E outcome \in {"accepted", "edited", "aborted", "failed"} :
               /\ outcome = "accepted" => Strip(commit_message.v) # <<>> /\ staged # {}
               /\ outcome = "edited" => staged # {}
               /\ commitOutcome' = outcome
               /\ pc' = AfterCommit(outcome)
               /\ IF outcome \in {"accepted", "edited"}
                    THEN /\ commits' = Append(commits,
                              [msg |-> IF outcome = "edited" THEN EditedMsg ELSE commit_message.v,
                               files |-> staged])
                         /\ staged' = {}
                         /\ hasHead' = TRUE
                    ELSE UNCHANGED << commits, staged, hasHead >>
    /\ UNCHANGED << environ, gitInstalled, dirty, API_KEY, log, statusResult, diff, request,
                    response, commit_message, staged0, dirty0, stagedAtDiff >>

\* commit_changes, second call: git restore --staged .  (result ignored)
GitRestore ==
    /\ pc = "restore"
    /\ calls' = Append(calls, "restore")
    /\ IF hasHead
         THEN staged' = {} /\ dirty' = dirty \cup staged
         ELSE UNCHANGED << staged, dirty >>   \* fatal: could not resolve HEAD
    /\ pc' = "done"
    /\ UNCHANGED << environ, gitInstalled, hasHead, commits, API_KEY, log, statusResult,
                    diff, request, response, commit_message, commitArg, commitOutcome, err,
                    staged0, dirty0, stagedAtDiff >>

Next ==
    \/ Construct
    \/ CheckGitStatus
    \/ GitAdd
    \/ GitDiff
    \/ CallGeminiApi
    \/ GitCommit
    \/ GitRestore

Spec == Init /\ [][Next]_vars

\* every external call returns: the process always takes its next step
LiveSpec == Spec /\ WF_vars(Next)

\* ----------------------------------------------------- vocabulary of claims
Has(op) == \E i \in 1..Len(calls) : calls[i] = op

Count(op) == Cardinality({i \in 1..Len(calls) : calls[i] = op})

Order == <<"status", "add", "diff", "network", "commit", "restore">>

IsPrefix(s, t) == Len(s) <= Len(t) /\ \A i \in 1..Len(s) : s[i] = t[i]

Terminal == pc \in {"done", "error"}

Rank(p) ==
    CASE p = "start" -> 0 [] p = "status" -> 1 [] p = "add" -> 2 [] p = "diff" -> 3
      [] p = "api" -> 4 [] p = "commit" -> 5 [] p = "restore" -> 6 [] OTHER -> 7

Blank(d) == \A i \in 1..Len(d) : d[i] \in Whitespace

KeyAbsent == KeyName \notin DOMAIN environ \/ environ[KeyName] = <<>>

IsObjWith(x, k) == x.t = "obj" /\ k \in DOMAIN x.v

IsArrWith0(x) == x.t = "arr" /\ Len(x.v) >= 1

\* the JSON path candidates[0].content.parts[0].text exists in r
HasPath(r) ==
    /\ IsObjWith(r, "candidates")
    /\ IsArrWith0(r.v.candidates)
    /\ IsObjWith(r.v.candidates.v[1], "content")
    /\ IsObjWith(r.v.candidates.v[1].v.content, "parts")
    /\ IsArrWith0(r.v.candidates.v[1].v.content.v.parts)
    /\ IsObjWith(r.v.candidates.v[1].v.content.v.parts.v[1], "text")

ValueAtPath(r) == r.v.candidates.v[1].v.content.v.parts.v[1].v.text

\* the status step ended in an OSError (stderr output, or git not spawnable)
StatusErrored ==
    /\ pc \notin {"start", "status"}
    /\ err.at # "init"
    /\ ~gitInstalled \/ statusResult.stderr # <<>>

\* the remote generation step failed
ApiFailed == Has("network") /\ (response.t = "err" \/ ~HasPath(response))

EmptyDiffEnd == pc = "done" /\ Has("diff") /\ ~Has("network")

\* ----------------------------------------------------------------- claims
\* C1: with GEMINI_API_KEY unset or empty, construction fails with an error
\* before any git subprocess or network call; whenever the network call has
\* been issued, the key it carries is a non-empty string.
C1_KeyRequired ==
    /\ (pc # "start" /\ KeyAbsent) =>
          pc = "error" /\ err = [type |-> "OSError", at |-> "init"] /\ calls = <<>>
    /\ Has("network") => request.key.t = "str" /\ request.key.v # <<>>

C1_Witness == pc = "error" /\ KeyName \in DOMAIN environ /\ environ[KeyName] = <<>>

\* C2: when the status query errors, run() logs the error and returns
\* normally: no stage-all, diff, network call, commit or restore happens and
\* the index and working tree are as before the run.
C2_StatusErrorStops ==
    StatusErrored =>
        /\ pc = "done"
        /\ err = NoErr
        /\ log = <<"INFO", "ERROR">>
        /\ \A op \in {"add", "diff", "network", "commit", "restore"} : ~Has(op)
        /\ staged = staged0 /\ dirty = dirty0
        /\ diff = <<>> /\ request = None

C2_Witness ==
    /\ pc = "done" /\ statusResult.stderr # <<>>
    /\ staged0 # {} /\ dirty0 # {} /\ calls = <<"status">>

\* C3: when the captured diff is empty or whitespace-only, run() ends
\* normally without the network call, commit or restore.
C3_BlankDiffStops ==
    (Has("diff") /\ Blank(diff)) =>
        /\ pc = "done"
        /\ err = NoErr
        /\ \A op \in {"network", "commit", "restore"} : ~Has(op)

C3_Witness == Has("diff") /\ diff # <<>> /\ Blank(diff) /\ pc = "done"

\* C4: for a nonempty diff and a well-formed response, commit receives
\* exactly the extracted text, and restore-staged runs exactly once, after the
\* commit, whatever the commit's outcome.
C4_CommitThenRestore ==
    /\ (Has("network") /\ HasPath(response) /\ ValueAtPath(response).t = "str") =>
          /\ pc \in {"commit", "restore", "done"}
          /\ pc = "commit" => ~Has("commit") /\ commit_message = ValueAtPath(response)
          /\ pc # "commit" =>
                /\ Count("commit") = 1
                /\ commitArg = ValueAtPath(response)
                /\ commitOutcome \in {"accepted", "edited", "aborted", "failed"}
          /\ pc = "restore" => calls = SubSeq(Order, 1, Len(Order) - 1)
          /\ pc = "done" => calls = Order
    /\ Has("commit") => HasPath(response) /\ ~Blank(diff)

C4_Witness ==
    /\ pc = "done" /\ commitOutcome = "aborted" /\ Count("restore") = 1
    /\ commitArg = Str(MsgA) /\ calls[Len(calls)] = "restore"

\* C5: when the remote generation step fails after a nonempty diff, the run
\* ends in the error state with the error propagated: no commit, no restore,
\* one network call only, and the index is as the diff capture left it.
C5_ApiFailureIsFatal ==
    ApiFailed =>
        /\ pc = "error"
        /\ err.at = "api"
        /\ err.type \in {"URLError", "HTTPError", "JSONDecodeError", "KeyError",
                         "IndexError", "TypeError"}
        /\ ~Has("commit") /\ ~Has("restore")
        /\ Count("network") = 1
        /\ staged = stagedAtDiff /\ staged # {}
        /\ commits = <<>>

C5_Witness ==
    /\ pc = "error" /\ err = [type |-> "KeyError", at |-> "api"]
    /\ staged # staged0 /\ Count("network") = 1

\* C6: when run() ends through the empty-diff short-circuit, the index holds
\* no staged file, although stage-all ran and no unstage call was made.
C6_EmptyPathNothingStaged == EmptyDiffEnd => staged = {}

C6_Witness ==
    /\ EmptyDiffEnd /\ calls = <<"status", "add", "diff">>
    /\ dirty0 # {} /\ staged = {}

\* C7: extraction yields exactly the value at candidates[0].content.parts[0].text
\* when that path exists, and raises (no default, no empty message) when any
\* element of the path is missing.
C7_Extraction ==
    (Has("network") /\ response.t # "err") =>
        IF HasPath(response)
          THEN commit_message = ValueAtPath(response) /\ err.at # "api"
          ELSE /\ commit_message = None
               /\ err.at = "api"
               /\ err.type \in {"KeyError", "IndexError", "TypeError"}
               /\ pc = "error"

C7_Witness == Has("network") /\ response = Bodies[2] /\ commit_message = Str(MsgA)

\* C8: the external operations happen in the order status, stage-all, diff,
\* network call, commit, restore-staged, each at most once; the process never
\* moves back to an earlier step; and every run reaches a terminal state.
C8_OrderAndTermination ==
    /\ [](IsPrefix(calls, Order))
    /\ [][Rank(pc') > Rank(pc)]_vars
    /\ <>Terminal

C8_Witness == pc = "done" /\ calls = Order

C10_CommitPathUnstaged == (pc = "done" /\ Has("commit")) => staged = {}

====
